---- MODULE Spec2Model ----
(***************************************************************************)
(* Model of the AWS pricing agent, ratio_aws/agents/pricing/runtime/run.py *)
(*                                                                         *)
(* Python values are modelled as follows.                                  *)
(*   str (filter keys)  : a sequence of one-character strings              *)
(*   dict               : a sequence of <<key, value>> pairs with distinct *)
(*                        keys, in insertion order                         *)
(*   optional argument  : <<>> when absent (None), <<v>> when present      *)
(*   file path          : a sequence of string parts ("" is <<>>)          *)
(*   JSON text          : a record [kind, doc]; kind says what json.loads  *)
(*                        makes of the text                                *)
(***************************************************************************)
EXTENDS Integers, Sequences, FiniteSets, TLC

VARIABLES
    event,                \* the request arguments (system.arguments)
    catalog,              \* upstream catalog: location -> list of raw records
    pc,                   \* position of the handler
    error,                \* the exception that left the handler ("" if none)
    final_filters,        \* run.py:134, :150
    region_display_names, \* run.py:139
    regions_to_query,     \* run.py:157
    region_idx,           \* position of the loop of run.py:159
    page_iterator,        \* pages the paginator of run.py:177 has not yielded yet
    region_records,       \* run.py:183
    all_pricing_records,  \* run.py:154
    result_file_path,     \* run.py:121, :207
    queries,              \* log of paginator.paginate calls
    calls,                \* log of page fetches (one API call each)
    files,                \* log of system.put_file calls
    responses,            \* log of system.success calls
    nf_pc,                \* normalizer harness: position
    nf_filters,           \* normalizer harness: the input
    nf_normalized,        \* normalizer harness: normalize(input)
    nf_twice              \* normalizer harness: normalize(normalize(input))

hvars == <<event, catalog, pc, error, final_filters, region_display_names,
           regions_to_query, region_idx, page_iterator, region_records,
           all_pricing_records, result_file_path, queries, calls, files, responses>>
nvars == <<nf_pc, nf_filters, nf_normalized, nf_twice>>
vars == <<hvars, nvars>>

----------------------------------------------------------------------------
(* Bounds of the model                                                     *)

MaxRegions == 2        \* longest region list of a request
MaxListing == 1       \* longest enumerated catalog listing
BulkSize == 6          \* products of the largest catalog listing
SmallMaxRecords == 2   \* the max_records a caller supplies
MaxKeyLen == 3         \* longest filter key of the normalizer harness

(* Program constants                                                       *)

DEFAULT_MAX_RECORDS == 50
SUMMARY_LIMIT == 10

----------------------------------------------------------------------------
(* Strings                                                                 *)

Lowers == <<"a","b","c","d","e","f","g","h","i","j","k","l","m",
            "n","o","p","q","r","s","t","u","v","w","x","y","z">>
Uppers == <<"A","B","C","D","E","F","G","H","I","J","K","L","M",
            "N","O","P","Q","R","S","T","U","V","W","X","Y","Z">>

IndexIn(seq, c) ==
    IF \E i \in 1..Len(seq) : seq[i] = c
    THEN CHOOSE i \in 1..Len(seq) : seq[i] = c
    ELSE 0

upper(c) == IF IndexIn(Lowers, c) > 0 THEN Uppers[IndexIn(Lowers, c)] ELSE c
lower(c) == IF IndexIn(Uppers, c) > 0 THEN Lowers[IndexIn(Uppers, c)] ELSE c

capitalize_keep_rest(word) ==
    IF word = <<>> THEN <<>>
    ELSE <<upper(word[1])>> \o SubSeq(word, 2, Len(word))

\* str.capitalize: first character upper-cased, the rest lower-cased
capitalize(word) ==
    IF word = <<>> THEN <<>>
    ELSE <<upper(word[1])>> \o [i \in 1..(Len(word) - 1) |-> lower(word[i + 1])]

RECURSIVE split(_)
\* str.split("_")
split(s) ==
    IF IndexIn(s, "_") = 0 THEN <<s>>
    ELSE LET p == IndexIn(s, "_")
         IN  <<SubSeq(s, 1, p - 1)>> \o split(SubSeq(s, p + 1, Len(s)))

RECURSIVE join(_)
\* "".join(words)
join(words) == IF words = <<>> THEN <<>> ELSE Head(words) \o join(Tail(words))

snake_to_camel(snake_str) ==
    IF IndexIn(snake_str, "_") = 0 THEN snake_str
    ELSE LET components == split(snake_str)
         IN  components[1]
                 \o join([i \in 1..(Len(components) - 1) |-> capitalize(components[i + 1])])

----------------------------------------------------------------------------
(* dict                                                                    *)

Keys(d) == {d[i][1] : i \in 1..Len(d)}
Has(d, k) == k \in Keys(d)
Get(d, k) == d[CHOOSE i \in 1..Len(d) : d[i][1] = k][2]

\* d[k] = v : an existing key keeps its position, a new key goes last
SetItem(d, k, v) ==
    IF Has(d, k)
    THEN [i \in 1..Len(d) |-> IF d[i][1] = k THEN <<k, v>> ELSE d[i]]
    ELSE Append(d, <<k, v>>)

\* Python truth value of an optional str / list / dict
Truthy(v) == v # <<>> /\ v[1] # <<>>

RECURSIVE NormalizeItems(_, _)
NormalizeItems(items, normalized) ==
    IF items = <<>> THEN normalized
    ELSE NormalizeItems(Tail(items),
                        SetItem(normalized, snake_to_camel(Head(items)[1]), Head(items)[2]))

normalize_filters_for_service(filters) ==
    IF ~Truthy(filters) THEN <<>> ELSE NormalizeItems(filters[1], <<>>)

----------------------------------------------------------------------------
(* The normalizer on its own: inputs drawn from bounded sets               *)

KeyChars == {"a", "B", "_"}

KeysOfLen(n) == [1..n -> KeyChars]
KeyInputs == UNION {KeysOfLen(n) : n \in 0..MaxKeyLen}

\* None, {}, one entry, two entries; the value of an entry is its position
FilterInputs ==
    {<<>>, << <<>> >>}
        \cup {<< << <<k, 1>> >> >> : k \in KeyInputs}
        \cup {<< << <<k[1], 1>>, <<k[2], 2>> >> >> :
                 k \in {kk \in KeyInputs \X KeyInputs : kk[1] # kk[2]}}

HandlerIdle ==
    /\ event = <<>>
    /\ catalog = <<>>
    /\ pc = "idle"
    /\ error = ""
    /\ final_filters = <<>>
    /\ region_display_names = <<>>
    /\ regions_to_query = <<>>
    /\ region_idx = 0
    /\ page_iterator = <<>>
    /\ region_records = <<>>
    /\ all_pricing_records = <<>>
    /\ result_file_path = <<>>
    /\ queries = <<>>
    /\ calls = <<>>
    /\ files = <<>>
    /\ responses = <<>>

InitNorm ==
    /\ HandlerIdle
    /\ nf_pc = "input"
    /\ nf_filters \in FilterInputs
    /\ nf_normalized = <<>>
    /\ nf_twice = <<>>

NormalizeOnce ==
    /\ nf_pc = "input"
    /\ nf_normalized' = normalize_filters_for_service(nf_filters)
    /\ nf_pc' = "once"
    /\ UNCHANGED <<nf_filters, nf_twice, hvars>>

NormalizeTwice ==
    /\ nf_pc = "once"
    /\ nf_twice' = normalize_filters_for_service(<<nf_normalized>>)
    /\ nf_pc' = "twice"
    /\ UNCHANGED <<nf_filters, nf_normalized, hvars>>

NextNorm == NormalizeOnce \/ NormalizeTwice

SpecNorm == InitNorm /\ [][NextNorm]_vars

----------------------------------------------------------------------------
(* The handler: constants and inputs                                       *)

REGION_MAPPING ==
    ("us-east-1" :> "US East (N. Virginia)")
        @@ ("us-east-2" :> "US East (Ohio)")
        @@ ("us-west-1" :> "US West (N. California)")
        @@ ("us-west-2" :> "US West (Oregon)")
        @@ ("eu-west-1" :> "Europe (Ireland)")
        @@ ("eu-west-2" :> "Europe (London)")
        @@ ("eu-west-3" :> "Europe (Paris)")
        @@ ("eu-central-1" :> "Europe (Frankfurt)")
        @@ ("eu-north-1" :> "Europe (Stockholm)")
        @@ ("ap-southeast-1" :> "Asia Pacific (Singapore)")
        @@ ("ap-southeast-2" :> "Asia Pacific (Sydney)")
        @@ ("ap-northeast-1" :> "Asia Pacific (Tokyo)")
        @@ ("ap-northeast-2" :> "Asia Pacific (Seoul)")
        @@ ("ap-south-1" :> "Asia Pacific (Mumbai)")
        @@ ("ca-central-1" :> "Canada (Central)")
        @@ ("sa-east-1" :> "South America (Sao Paulo)")

DEFAULT_REGIONS == <<"us-east-1">>

LOCATION == <<"l","o","c","a","t","i","o","n">>
LOCATION_TRAILING == <<"l","o","c","a","t","i","o","n","_">>
INSTANCE_TYPE == <<"i","n","s","t","a","n","c","e","_","t","y","p","e">>
INSTANCE_TYPE_CAMEL == <<"i","n","s","t","a","n","c","e","T","y","p","e">>
OPERATING_SYSTEM == <<"o","p","e","r","a","t","i","n","g","_","s","y","s","t","e","m">>

ServiceCodes == {"AmazonEC2", "AmazonS3"}

\* two known codes and one the table does not hold
RegionInputs == {"us-east-1", "eu-west-1", "mars-1"}
RegionLists == UNION {[1..n -> RegionInputs] : n \in 0..MaxRegions}
RegionsArgs == {<<>>} \cup {<<l>> : l \in RegionLists}

FiltersArgs ==
    { <<>>,
      << << <<INSTANCE_TYPE, "m5.large">>, <<LOCATION, "Moon">> >> >>,
      << << <<LOCATION_TRAILING, "Moon">>, <<INSTANCE_TYPE_CAMEL, "t3.micro">>,
            <<OPERATING_SYSTEM, "Linux">>, <<INSTANCE_TYPE, "m5.large">> >> >> }

MaxRecordsArgs == {<<>>, <<SmallMaxRecords>>}

PathArgs == {<<>>, << <<>> >>, << <<"reports/ec2.json">> >>}

UUIDs == {"uuid-1", "uuid-2"}
working_directory == <<"/work">>

EventInputs ==
    [service_code : ServiceCodes, regions : RegionsArgs, filters : FiltersArgs,
     max_records : MaxRecordsArgs, result_file_path : PathArgs]

(* Raw records of the catalog (the strings of a page's PriceList)          *)

EmptyDoc == [k \in {} |-> 0]
Product(sku) == [kind |-> "object", doc |-> ("sku" :> sku)]
Tagged(sku) == [kind |-> "object", doc |-> ("sku" :> sku) @@ ("queryRegion" :> "stale")]
Malformed == [kind |-> "invalid", doc |-> EmptyDoc]
NotAnObject == [kind |-> "array", doc |-> EmptyDoc]

Bulk == [i \in 1..BulkSize |-> Product(i)]

RecordKinds == {"object", "invalid", "array"}

\* a listing of the given kinds; a product's sku is its position
Listing(kinds) ==
    [i \in 1..Len(kinds) |->
        IF kinds[i] = "object" THEN Product(i)
        ELSE IF kinds[i] = "invalid" THEN Malformed ELSE NotAnObject]

\* what the catalog lists for one location
ProductLists ==
    {Listing(kinds) : kinds \in UNION {[1..n -> RecordKinds] : n \in 0..MaxListing}}
        \cup {Listing(<<"invalid", "object", "object">>),
              Listing(<<"object", "array", "object">>),
              <<Product(1), Malformed, Tagged(2)>>,
              Bulk}

\* system.arguments.get(name, default_return=...)
ArgRegions(ev) == IF ev.regions = <<>> THEN DEFAULT_REGIONS ELSE ev.regions[1]
ArgFilters(ev) == IF ev.filters = <<>> THEN << <<>> >> ELSE ev.filters
ArgMaxRecords(ev) == IF ev.max_records = <<>> THEN DEFAULT_MAX_RECORDS ELSE ev.max_records[1]

KnownLocations(ev) ==
    {REGION_MAPPING[r] : r \in {ArgRegions(ev)[i] : i \in 1..Len(ArgRegions(ev))}
                                  \cap DOMAIN REGION_MAPPING}

NormIdle ==
    /\ nf_pc = "idle"
    /\ nf_filters = <<>>
    /\ nf_normalized = <<>>
    /\ nf_twice = <<>>

Init ==
    /\ event \in EventInputs
    /\ catalog \in [KnownLocations(event) -> ProductLists]
    /\ pc = "start"
    /\ error = ""
    /\ final_filters = <<>>
    /\ region_display_names = <<>>
    /\ regions_to_query = <<>>
    /\ region_idx = 0
    /\ page_iterator = <<>>
    /\ region_records = <<>>
    /\ all_pricing_records = <<>>
    /\ result_file_path = <<>>
    /\ queries = <<>>
    /\ calls = <<>>
    /\ files = <<>>
    /\ responses = <<>>
    /\ NormIdle

----------------------------------------------------------------------------
(* The handler: helpers                                                    *)

RECURSIVE ResolveFrom(_, _)
ResolveFrom(regions, names) ==
    IF regions = <<>> THEN [raised |-> FALSE, names |-> names]
    ELSE IF Head(regions) \in DOMAIN REGION_MAPPING
         THEN ResolveFrom(Tail(regions), Append(names, REGION_MAPPING[Head(regions)]))
         ELSE [raised |-> TRUE, names |-> names]

RECURSIVE SkipUnknownFrom(_, _)
SkipUnknownFrom(regions, names) ==
    IF regions = <<>> THEN [raised |-> FALSE, names |-> names]
    ELSE IF Head(regions) \in DOMAIN REGION_MAPPING
         THEN SkipUnknownFrom(Tail(regions), Append(names, REGION_MAPPING[Head(regions)]))
         ELSE SkipUnknownFrom(Tail(regions), names)

resolve_regions_skip_unknown(regions) == SkipUnknownFrom(regions, <<>>)

\* the loop of run.py:141: raises at the first code the table does not hold
resolve_regions(regions) == ResolveFrom(regions, <<>>)

add_region_filter_never(filters, names) == filters

\* run.py:149
add_region_filter(filters, names) ==
    IF Len(names) = 1 THEN SetItem(filters, LOCATION, names[1]) ELSE filters

query_filters_setdefault(filters, region_name) ==
    IF Has(filters, LOCATION) THEN filters ELSE SetItem(filters, LOCATION, region_name)

\* run.py:160-162
query_filters(filters, region_name) == SetItem(filters, LOCATION, region_name)

\* run.py:165-172
api_filters(filters) ==
    [i \in 1..Len(filters) |->
        [Type |-> "TERM_MATCH", Field |-> filters[i][1], Value |-> filters[i][2]]]

RECURSIVE Chunks(_, _)
Chunks(list, n) ==
    IF Len(list) <= n THEN <<list>>
    ELSE <<SubSeq(list, 1, n)>> \o Chunks(SubSeq(list, n + 1, Len(list)), n)

\* the pages the paginator yields: at most MaxResults records each
paginate(listing, MaxResults) == Chunks(listing, MaxResults)

\* json.loads
json_loads(text) ==
    IF text.kind = "invalid" THEN [raised |-> "JSONDecodeError", isdict |-> FALSE, value |-> EmptyDoc]
    ELSE [raised |-> "", isdict |-> text.kind = "object", value |-> text.doc]

\* price_data["queryRegion"] = region_name
tag(price_data, region_name) == ("queryRegion" :> region_name) @@ price_data

RECURSIVE ParseFrom(_, _, _)
ParseFrom(price_list, region_name, records) ==
    IF price_list = <<>> THEN [raised |-> "", records |-> records]
    ELSE LET parsed == json_loads(Head(price_list))
         IN  IF parsed.raised = "JSONDecodeError"
             THEN ParseFrom(Tail(price_list), region_name, records)
             ELSE IF ~parsed.isdict
                  THEN [raised |-> "TypeError", records |-> records]
                  ELSE ParseFrom(Tail(price_list), region_name,
                                 Append(records, tag(parsed.value, region_name)))

\* the loop of run.py:186 over one page
parse_page(price_list, region_name) == ParseFrom(price_list, region_name, <<>>)

extend_overwrite(all, records) == records

\* all_pricing_records.extend(region_records)
extend(all, records) == all \o records

fetch_error_retry == "page"

\* no handler surrounds the page loop: an upstream error leaves the handler
fetch_error_pc == "failed"

generated_path_no_service(directory, service_code, token) ==
    directory \o <<"/">> \o <<"aws_pricing_", "_", token, ".json">>

\* os.path.join(working_directory, f"aws_pricing_{service_code}_{uuid4()}.json")
generated_path(directory, service_code, token) ==
    directory \o <<"/">> \o <<"aws_pricing_", service_code, "_", token, ".json">>

\* json.dumps: the text of a value
json_dumps(value) == [text_of |-> value]

detailed_results(service_code, regions, filters, records) ==
    [service_code |-> service_code,
     regions_queried |-> regions,
     filters_applied |-> filters,
     record_count |-> Len(records),
     pricing_records |-> records]

put_file_metadata(service_code, regions, records) ==
    [service_code |-> service_code, regions |-> regions, record_count |-> Len(records)]

summary_records_all(records) == records

\* run.py:234
summary_records(records) ==
    IF Len(records) > SUMMARY_LIMIT THEN SubSeq(records, 1, SUMMARY_LIMIT) ELSE records

response_body_summary_count(summary, path, service_code, regions, records, filters) ==
    [pricing_records |-> summary,
     result_file_path |-> path,
     service_code |-> service_code,
     regions_queried |-> regions,
     record_count |-> Len(summary),
     filters_applied |-> filters]

\* run.py:238-245
response_body(summary, path, service_code, regions, records, filters) ==
    [pricing_records |-> summary,
     result_file_path |-> path,
     service_code |-> service_code,
     regions_queried |-> regions,
     record_count |-> Len(records),
     filters_applied |-> filters]

----------------------------------------------------------------------------
(* The handler: one action per step of run.py:97-246                       *)

Fail(exception) ==
    /\ pc' = "failed"
    /\ error' = exception

PageNumber == Cardinality({n \in 1..Len(calls) : calls[n].pass = region_idx}) + 1

\* run.py:113-157: read the arguments, normalize the filters, resolve the regions
Start ==
    /\ pc = "start"
    /\ LET regions == ArgRegions(event)
           normalized == normalize_filters_for_service(ArgFilters(event))
           resolved == resolve_regions(regions)
       IN  /\ result_file_path' = event.result_file_path
           /\ region_display_names' = resolved.names
           /\ IF resolved.raised
              THEN /\ Fail("PricingError")
                   /\ final_filters' = normalized
                   /\ UNCHANGED <<regions_to_query, region_idx>>
              ELSE /\ final_filters' = add_region_filter(normalized, resolved.names)
                   /\ IF resolved.names = <<>>
                      THEN /\ Fail("IndexError")
                           /\ UNCHANGED <<regions_to_query, region_idx>>
                      ELSE /\ regions_to_query' =
                                  IF Len(resolved.names) > 1 THEN resolved.names
                                  ELSE <<resolved.names[1]>>
                           /\ region_idx' = 1
                           /\ pc' = "query"
                           /\ UNCHANGED error
    /\ UNCHANGED <<event, catalog, page_iterator, region_records, all_pricing_records,
                   queries, calls, files, responses, nvars>>

\* run.py:159-183: build the filters of one region and open its paginator
BeginRegion ==
    /\ pc = "query"
    /\ LET region_name == regions_to_query[region_idx]
           request == [ServiceCode |-> event.service_code,
                       Filters |-> api_filters(query_filters(final_filters, region_name)),
                       MaxResults |-> ArgMaxRecords(event)]
       IN  /\ queries' = Append(queries, request)
           /\ page_iterator' = paginate(catalog[region_name], request.MaxResults)
    /\ region_records' = <<>>
    /\ pc' = "page"
    /\ UNCHANGED <<event, catalog, error, final_filters, region_display_names,
                   regions_to_query, region_idx, all_pricing_records, result_file_path,
                   calls, files, responses, nvars>>

\* run.py:185-199: the paginator yields its next page, whose records are parsed
FetchPage ==
    /\ pc = "page"
    /\ page_iterator # <<>>
    /\ LET parsed == parse_page(Head(page_iterator), regions_to_query[region_idx])
       IN  /\ region_records' = region_records \o parsed.records
           /\ IF parsed.raised = ""
              THEN UNCHANGED <<pc, error>>
              ELSE Fail(parsed.raised)
    /\ calls' = Append(calls, [pass |-> region_idx, page |-> PageNumber, ok |-> TRUE])
    /\ page_iterator' = Tail(page_iterator)
    /\ UNCHANGED <<event, catalog, final_filters, region_display_names, regions_to_query,
                   region_idx, all_pricing_records, result_file_path, queries, files,
                   responses, nvars>>

\* run.py:185: the fetch of the next page raises (network, auth, throttling)
FetchFails ==
    /\ pc = "page"
    /\ page_iterator # <<>>
    /\ calls' = Append(calls, [pass |-> region_idx, page |-> PageNumber, ok |-> FALSE])
    /\ pc' = fetch_error_pc
    /\ error' = "ClientError"
    /\ UNCHANGED <<event, catalog, final_filters, region_display_names, regions_to_query,
                   region_idx, page_iterator, region_records, all_pricing_records,
                   result_file_path, queries, files, responses, nvars>>

\* run.py:201-203: the paginator is exhausted
EndRegion ==
    /\ pc = "page"
    /\ page_iterator = <<>>
    /\ all_pricing_records' = extend(all_pricing_records, region_records)
    /\ region_idx' = region_idx + 1
    /\ pc' = IF region_idx < Len(regions_to_query) THEN "query" ELSE "persist"
    /\ UNCHANGED <<event, catalog, error, final_filters, region_display_names,
                   regions_to_query, page_iterator, region_records, result_file_path,
                   queries, calls, files, responses, nvars>>

\* run.py:205-231: choose the path and save the envelope
Persist ==
    /\ pc = "persist"
    /\ \E token \in UUIDs :
         LET path == IF ~Truthy(result_file_path)
                     THEN generated_path(working_directory, event.service_code, token)
                     ELSE result_file_path[1]
         IN  /\ result_file_path' = <<path>>
             /\ files' = Append(files,
                   [file_path |-> path,
                    file_type |-> "ratio::file",
                    data |-> json_dumps(detailed_results(event.service_code,
                                ArgRegions(event), final_filters, all_pricing_records)),
                    metadata |-> put_file_metadata(event.service_code, ArgRegions(event),
                                                   all_pricing_records)])
    /\ pc' = "respond"
    /\ UNCHANGED <<event, catalog, error, final_filters, region_display_names,
                   regions_to_query, region_idx, page_iterator, region_records,
                   all_pricing_records, queries, calls, responses, nvars>>

\* run.py:106, :222: put_file fails and raise_on_failure makes it raise
PersistFails ==
    /\ pc = "persist"
    /\ Fail("PutFileError")
    /\ UNCHANGED <<event, catalog, final_filters, region_display_names, regions_to_query,
                   region_idx, page_iterator, region_records, all_pricing_records,
                   result_file_path, queries, calls, files, responses, nvars>>

\* run.py:233-246: signal success with the summary
Respond ==
    /\ pc = "respond"
    /\ responses' = Append(responses,
           response_body(summary_records(all_pricing_records), result_file_path[1],
                         event.service_code, ArgRegions(event), all_pricing_records,
                         final_filters))
    /\ pc' = "done"
    /\ UNCHANGED <<event, catalog, error, final_filters, region_display_names,
                   regions_to_query, region_idx, page_iterator, region_records,
                   all_pricing_records, result_file_path, queries, calls, files, nvars>>

Next ==
    \/ Start
    \/ BeginRegion
    \/ FetchPage
    \/ FetchFails
    \/ EndRegion
    \/ Persist
    \/ PersistFails
    \/ Respond

Spec == Init /\ [][Next]_vars

----------------------------------------------------------------------------
(* Properties: vocabulary                                                  *)

Regions == ArgRegions(event)
AllKnown == \A i \in 1..Len(Regions) : Regions[i] \in DOMAIN REGION_MAPPING
Collected == pc \in {"persist", "respond", "done"}
MinOf(a, b) == IF a <= b THEN a ELSE b

IsObject(text) == text.kind = "object"

\* the well-formed records of a listing, each tagged with the location
TaggedObjects(listing, location) ==
    LET objects == SelectSeq(listing, IsObject)
    IN  [i \in 1..Len(objects) |-> ("queryRegion" :> location) @@ objects[i].doc]

\* region order, then listing order
ExpectedRecords ==
    join([i \in 1..Len(Regions) |->
             TaggedObjects(catalog[REGION_MAPPING[Regions[i]]], REGION_MAPPING[Regions[i]])])

PagesOf(i) == Len(paginate(catalog[REGION_MAPPING[Regions[i]]], ArgMaxRecords(event)))

IsLocation(entry) == entry.Field = LOCATION
NotLocation(entry) == entry.Field # LOCATION

Envelope == files[1].data.text_of
Response == responses[1]

----------------------------------------------------------------------------
(* C1: a region list holding a code the table lacks, at any position,      *)
(* makes the handler raise before any catalog query is issued; put_file    *)
(* and success are never called in that invocation.                        *)
C1_UnknownRegionFailsFast ==
    ~AllKnown =>
        /\ queries = <<>>
        /\ calls = <<>>
        /\ files = <<>>
        /\ responses = <<>>
        /\ pc \in {"start", "failed"}
        /\ pc = "failed" => error = "PricingError"

C1_Witness ==
    /\ pc = "failed"
    /\ error = "PricingError"
    /\ Len(Regions) = 2
    /\ Regions[1] \in DOMAIN REGION_MAPPING
    /\ Regions[2] \notin DOMAIN REGION_MAPPING

(* C2: an invocation fully succeeds or fully fails: success is signalled   *)
(* at most once and only after exactly one put_file of the full envelope;  *)
(* a failed page fetch is not retried, nothing is fetched after it, no     *)
(* put_file and no success occur, and the error leaves the handler.        *)
C2_AllOrNothing ==
    /\ Len(responses) <= 1
    /\ Len(files) <= 1
    /\ responses # <<>> =>
          /\ pc = "done"
          /\ error = ""
          /\ Len(files) = 1
          /\ Envelope.pricing_records = ExpectedRecords
    /\ files # <<>> => pc \in {"respond", "done"}
    /\ pc = "failed" => error # "" /\ files = <<>> /\ responses = <<>>
    /\ error # "" => pc = "failed"
    /\ \A n \in 1..Len(calls) :
          ~calls[n].ok => n = Len(calls) /\ pc = "failed" /\ error = "ClientError"
    /\ \A m, n \in 1..Len(calls) :
          m < n => <<calls[m].pass, calls[m].page>> # <<calls[n].pass, calls[n].page>>

C2_Witness ==
    /\ pc = "failed"
    /\ error = "ClientError"
    /\ calls[Len(calls)].pass = 2
    /\ calls[Len(calls)].page = 2
    /\ all_pricing_records # <<>>

(* C3: with n >= 2 known regions there are exactly n query passes, in the  *)
(* order of the region list; pass i carries exactly one location filter,   *)
(* the display name of region i, whatever location the caller supplied,    *)
(* and the other normalized caller filters unchanged.                      *)
C3_OnePassPerRegion ==
    (AllKnown /\ Len(Regions) >= 2) =>
        /\ Len(queries) <= Len(Regions)
        /\ Collected => Len(queries) = Len(Regions)
        /\ \A i \in 1..Len(queries) :
              LET sent == queries[i].Filters
                  location == SelectSeq(sent, IsLocation)
                  caller == normalize_filters_for_service(ArgFilters(event))
                  others == SelectSeq(api_filters(caller), NotLocation)
              IN  /\ Len(location) = 1
                  /\ location[1].Type = "TERM_MATCH"
                  /\ location[1].Value = REGION_MAPPING[Regions[i]]
                  /\ SelectSeq(sent, NotLocation) = others
        /\ (Collected /\ Regions = <<"us-east-1", "eu-west-1">> /\ event.filters = <<>>) =>
              /\ queries[1].Filters =
                    <<[Type |-> "TERM_MATCH", Field |-> LOCATION,
                       Value |-> "US East (N. Virginia)"]>>
              /\ queries[2].Filters =
                    <<[Type |-> "TERM_MATCH", Field |-> LOCATION,
                       Value |-> "Europe (Ireland)"]>>

C3_Witness ==
    /\ pc = "done"
    /\ Regions = <<"us-east-1", "eu-west-1">>
    /\ Has(final_filters, LOCATION)
    /\ Get(final_filters, LOCATION) = "Moon"
    /\ Len(final_filters) > 1
    /\ Len(queries) = 2

(* C4: a malformed raw record is skipped and not counted, a well-formed    *)
(* one appears in the aggregate tagged with its region, and no raw record  *)
(* returned by the catalog can make the invocation fail.                   *)
C4_NoRecordIsFatal ==
    /\ error # "TypeError"
    /\ Collected => all_pricing_records = ExpectedRecords

(* C5: the response holds the first min(10, N) records of the aggregate in *)
(* aggregate order and the persisted envelope holds all N.                 *)
C5_SummaryIsPrefix ==
    pc = "done" =>
        LET N == Len(ExpectedRecords)
        IN  /\ Envelope.pricing_records = ExpectedRecords
            /\ Response.pricing_records = SubSeq(ExpectedRecords, 1, MinOf(10, N))
            /\ N > 10 => Len(Response.pricing_records) = 10
                           /\ Len(Envelope.pricing_records) = N

C5_Witness ==
    /\ pc = "done"
    /\ Len(Envelope.pricing_records) > 10
    /\ Len(Response.pricing_records) = 10

(* C6: the path given to put_file is the result_file_path of the response: *)
(* the caller's path when one is supplied, otherwise one path generated    *)
(* under the working directory from the service code and a unique token.   *)
C6_SamePathInBothPlaces ==
    pc = "done" =>
        /\ files[1].file_path = Response.result_file_path
        /\ Truthy(event.result_file_path) =>
              files[1].file_path = event.result_file_path[1]
        /\ ~Truthy(event.result_file_path) =>
              \E token \in UUIDs :
                  files[1].file_path =
                      working_directory
                          \o <<"/", "aws_pricing_", event.service_code, "_", token, ".json">>

C6_Witness ==
    /\ pc = "done"
    /\ event.result_file_path = << <<>> >>
    /\ Response.result_file_path[Len(Response.result_file_path) - 1] = "uuid-2"

(* C8: for one known region the final filter set holds location = the      *)
(* region's display name, merged before the loop over regions in place of  *)
(* any caller location; the one query pass uses that set and the envelope  *)
(* and the response report it as filters_applied.                          *)
C8_SingleRegionMerge ==
    (AllKnown /\ Len(Regions) = 1 /\ pc # "start") =>
        LET caller == normalize_filters_for_service(ArgFilters(event))
            expected == SetItem(caller, LOCATION, REGION_MAPPING[Regions[1]])
        IN  /\ final_filters = expected
            /\ Has(final_filters, LOCATION)
            /\ Get(final_filters, LOCATION) = REGION_MAPPING[Regions[1]]
            /\ Len(queries) <= 1
            /\ \A i \in 1..Len(queries) : queries[i].Filters = api_filters(expected)
            /\ files # <<>> => Envelope.filters_applied = expected
            /\ responses # <<>> => Response.filters_applied = expected

C8_Witness ==
    /\ pc = "done"
    /\ Regions = <<"eu-west-1">>
    /\ Has(ArgFilters(event)[1], LOCATION)
    /\ Get(Response.filters_applied, LOCATION) = "Europe (Ireland)"

(* C9: regions are queried one after another and so are the pages of a     *)
(* region, every page is collected, and the aggregate is the concatenation *)
(* in region, page and in-page order of the well-formed records: no        *)
(* deduplication, no sorting, no truncation to max_records, which is only  *)
(* the per-call cap.                                                       *)
C9_SequentialConcatenation ==
    /\ \A n \in 1..Len(calls) :
          IF n = 1 THEN calls[n].pass = 1 /\ calls[n].page = 1
          ELSE \/ calls[n].pass = calls[n - 1].pass /\ calls[n].page = calls[n - 1].page + 1
               \/ /\ calls[n].pass = calls[n - 1].pass + 1
                  /\ calls[n].page = 1
                  /\ calls[n - 1].page = PagesOf(calls[n - 1].pass)
    /\ \A n \in 1..Len(calls) : calls[n].pass <= Len(queries)
    /\ \A i \in 1..Len(queries) : queries[i].MaxResults = ArgMaxRecords(event)
    /\ Collected =>
          /\ \A i \in 1..Len(Regions) :
                Cardinality({n \in 1..Len(calls) : calls[n].pass = i}) = PagesOf(i)
          /\ all_pricing_records = ExpectedRecords
    /\ pc = "done" => Envelope.pricing_records = ExpectedRecords

C9_Witness ==
    /\ pc = "done"
    /\ Regions = <<"eu-west-1", "us-east-1">>
    /\ PagesOf(1) >= 2
    /\ PagesOf(2) >= 2
    /\ Len(all_pricing_records) > ArgMaxRecords(event)
    /\ \E i \in 1..2 : Malformed \in {catalog[REGION_MAPPING[Regions[i]]][n] :
                                         n \in 1..Len(catalog[REGION_MAPPING[Regions[i]]])}

(* C10: the record counts of the response, the envelope and the put_file   *)
(* metadata all equal the length of the persisted record list; the service *)
(* code, the region codes and the applied filters of the envelope and the  *)
(* response are the same.                                                  *)
C10_CountsAgree ==
    pc = "done" =>
        /\ Response.record_count = Len(Envelope.pricing_records)
        /\ Envelope.record_count = Len(Envelope.pricing_records)
        /\ files[1].metadata.record_count = Len(Envelope.pricing_records)
        /\ Len(Envelope.pricing_records) = Len(ExpectedRecords)
        /\ Envelope.service_code = event.service_code
        /\ Response.service_code = event.service_code
        /\ Envelope.regions_queried = Regions
        /\ Response.regions_queried = Regions
        /\ Envelope.filters_applied = Response.filters_applied

C10_Witness ==
    /\ pc = "done"
    /\ Len(Regions) = 2
    /\ Response.record_count > Len(Response.pricing_records)

----------------------------------------------------------------------------
(* Properties of the normalizer                                            *)

\* character i of a key in compact camel form, described by position
CamelChar(s, i, keep_rest) ==
    LET first == IndexIn(s, "_")
    IN  IF first = 0 \/ i < first THEN s[i]
        ELSE IF s[i - 1] = "_" THEN upper(s[i])
        ELSE IF keep_rest THEN s[i] ELSE lower(s[i])

CompactCamel(s, keep_rest) ==
    join([i \in 1..Len(s) |-> IF s[i] = "_" THEN <<>> ELSE <<CamelChar(s, i, keep_rest)>>])

NfItems == IF Truthy(nf_filters) THEN nf_filters[1] ELSE <<>>

(* C7 as stated: every key goes to its compact camel form, the segments    *)
(* after the first capitalized and otherwise unchanged; keys without a     *)
(* separator and values are kept, empty or absent input gives the empty    *)
(* mapping, and normalizing twice changes nothing.                         *)
C7_SegmentsOtherwiseUnchanged ==
    nf_pc = "twice" =>
        /\ Keys(nf_normalized) = {CompactCamel(NfItems[i][1], TRUE) : i \in 1..Len(NfItems)}
        /\ \A n \in 1..Len(nf_normalized) :
              \E i \in 1..Len(NfItems) :
                  /\ CompactCamel(NfItems[i][1], TRUE) = nf_normalized[n][1]
                  /\ NfItems[i][2] = nf_normalized[n][2]
        /\ \A i \in 1..Len(NfItems) :
              IndexIn(NfItems[i][1], "_") = 0 => Has(nf_normalized, NfItems[i][1])
        /\ ~Truthy(nf_filters) => nf_normalized = <<>>
        /\ nf_twice = nf_normalized

(* C7 amended: the segments after the first are capitalized as             *)
(* str.capitalize does, first character upper-cased and the others         *)
(* lower-cased; of several keys with one camel form the last one's value   *)
(* is kept.                                                                *)
C7_SegmentsCapitalized ==
    nf_pc = "twice" =>
        /\ Keys(nf_normalized) = {CompactCamel(NfItems[i][1], FALSE) : i \in 1..Len(NfItems)}
        /\ Len(nf_normalized) = Cardinality(Keys(nf_normalized))
        /\ \A i \in 1..Len(NfItems) :
              LET same == {j \in 1..Len(NfItems) :
                              CompactCamel(NfItems[j][1], FALSE)
                                  = CompactCamel(NfItems[i][1], FALSE)}
                  last == CHOOSE j \in same : \A k \in same : k <= j
              IN  Get(nf_normalized, CompactCamel(NfItems[i][1], FALSE)) = NfItems[last][2]
        /\ \A i \in 1..Len(NfItems) :
              IndexIn(NfItems[i][1], "_") = 0 => Has(nf_normalized, NfItems[i][1])
        /\ \A n \in 1..Len(nf_normalized) : IndexIn(nf_normalized[n][1], "_") = 0
        /\ ~Truthy(nf_filters) => nf_normalized = <<>>
        /\ nf_twice = nf_normalized

C7_Witness ==
    /\ nf_pc = "twice"
    /\ Len(NfItems) = 2
    /\ NfItems[1][1] = <<"a", "_", "a">>
    /\ IndexIn(NfItems[2][1], "_") = 0
    /\ nf_normalized[1][1] = <<"a", "A">>

====
